---------------------------- MODULE Spec2Model ----------------------------
(***************************************************************************)
(* A model of the finance tracker's month aggregation and withdrawal       *)
(* ceiling logic:                                                          *)
(*   src/src/contexts/FinanceContext.tsx   (FinanceProvider)               *)
(*   src/src/components/forms/ExpenseForm.tsx (ExpenseForm)                *)
(*                                                                         *)
(* Dates are instants <<year, month, day, ms>> in local calendar           *)
(* components, month 0-based as date-fns getMonth returns it, ms the       *)
(* milliseconds since local midnight.  Instants are ordered                *)
(* lexicographically, which is the order of their timestamps.              *)
(* Amounts are exact integers (currency units); collections fetched from   *)
(* the backend are sets of records with distinct ids.                      *)
(***************************************************************************)
EXTENDS Integers, Sequences, FiniteSets, TLC

VARIABLES
    today,           \* the wall clock: what `new Date()` returns
    selectedMonth,   \* FinanceProvider state: selectedMonth
    clients,         \* queries.clients.data (ids of the cached clients)
    incomes,         \* queries.incomes.data
    expenses,        \* queries.expenses.data
    investments,     \* queries.investments.data
    dbClients,       \* backend table clients
    dbExpenses,      \* backend table expenses
    nextId,          \* backend id generator of table expenses
    pending,         \* writes sent to the backend and not yet answered
    isMutating,      \* FinanceProvider state: isMutating
    props,           \* ExpenseForm props: type, editMode, expense
    form,            \* ExpenseForm state: the fields
    open,            \* ExpenseForm state: open
    memoToday,       \* the `today` captured by the withdrawalLimits memo
    calls,           \* history: context functions the last handleSubmit called
    user,            \* useAuth().user: the id of the signed-in user, or Null
    dbIncomes,       \* backend table incomes
    dbInvestments,   \* backend table investments
    stale            \* query keys invalidated and not yet fetched again

vars == <<today, selectedMonth, clients, incomes, expenses, investments,
          dbClients, dbExpenses, nextId, pending, isMutating,
          props, form, open, memoToday, calls,
          user, dbIncomes, dbInvestments, stale>>

-----------------------------------------------------------------------------
(* Calendar *)

MsLastOfDay == 86399999
MsNoon == 43200000

Null == "null"

IsLeapYear(y) == (y % 4 = 0 /\ y % 100 # 0) \/ y % 400 = 0

\* days of month m (0 = January) of year y
DaysInMonth(y, m) ==
    IF m = 1 THEN (IF IsLeapYear(y) THEN 29 ELSE 28)
    ELSE IF m \in {3, 5, 8, 10} THEN 30 ELSE 31

\* a <= b on timestamps
Leq(a, b) ==
    \/ a[1] < b[1]
    \/ a[1] = b[1] /\ a[2] < b[2]
    \/ a[1] = b[1] /\ a[2] = b[2] /\ a[3] < b[3]
    \/ a[1] = b[1] /\ a[2] = b[2] /\ a[3] = b[3] /\ a[4] <= b[4]

getYear(d) == d[1]
getMonth(d) == d[2]

startOfMonth(d) == <<d[1], d[2], 1, 0>>
endOfMonth(d) == <<d[1], d[2], DaysInMonth(d[1], d[2]), MsLastOfDay>>

\* a variant of isWithinInterval that leaves out the end instant
isWithinIntervalExclusiveEnd(d, start, end) == Leq(start, d) /\ Leq(d, end) /\ d # end
isWithinInterval(d, start, end) == Leq(start, d) /\ Leq(d, end)

Min(a, b) == IF a < b THEN a ELSE b
Max(a, b) == IF a > b THEN a ELSE b

\* date-fns setMonth: the day is clamped to the length of the target month
\* in the date's own year
setMonth(d, m) == <<d[1], m, Min(d[3], DaysInMonth(d[1], m)), d[4]>>

\* date-fns setYear is Date.setFullYear: a day the target year lacks
\* (Feb 29) rolls over into the next month
setYear(d, y) ==
    IF d[3] > DaysInMonth(y, d[2])
    THEN <<y, d[2] + 1, d[3] - DaysInMonth(y, d[2]), d[4]>>
    ELSE <<y, d[2], d[3], d[4]>>

RECURSIVE SumAmount(_)
\* reduce((sum, x) => sum + x.amount, 0)
SumAmount(S) ==
    IF S = {} THEN 0
    ELSE LET x == CHOOSE x \in S : TRUE IN x.amount + SumAmount(S \ {x})

-----------------------------------------------------------------------------
(* FinanceProvider: the month filters *)

InSelectedMonth(d) ==
    isWithinInterval(d, startOfMonth(selectedMonth), endOfMonth(selectedMonth))

\* a variant of filteredIncomes that keeps only the incomes received by now
filteredIncomesReceived ==
    {i \in incomes : InSelectedMonth(i.paymentDate) /\ Leq(i.paymentDate, today)}
filteredIncomes == {i \in incomes : InSelectedMonth(i.paymentDate)}

filteredInvestments == {i \in investments : InSelectedMonth(i.date)}

\* a variant of ExpenseShown that projects a fixed expense only into the
\* months after the month of its creation
ExpenseShownAfterCreationMonth(e) ==
    \/ InSelectedMonth(e.dueDate)
    \/ /\ e.isFixed
       /\ \/ getYear(e.createdAt) < getYear(selectedMonth)
          \/ /\ getYear(e.createdAt) = getYear(selectedMonth)
             /\ getMonth(e.createdAt) < getMonth(selectedMonth)

\* the filter of filteredExpenses: in the month, or fixed and created in or
\* before the selected month
ExpenseShown(e) ==
    \/ InSelectedMonth(e.dueDate)
    \/ /\ e.isFixed
       /\ \/ getYear(e.createdAt) < getYear(selectedMonth)
          \/ /\ getYear(e.createdAt) = getYear(selectedMonth)
             /\ getMonth(e.createdAt) <= getMonth(selectedMonth)

\* the map of filteredExpenses: a projected fixed expense gets its due date
\* moved to the selected month
ExpenseProjected(e) ==
    IF e.isFixed /\ ~InSelectedMonth(e.dueDate)
    THEN [e EXCEPT !.dueDate =
            setYear(setMonth(e.dueDate, getMonth(selectedMonth)),
                    getYear(selectedMonth))]
    ELSE e

filteredExpenses == {ExpenseProjected(e) : e \in {x \in expenses : ExpenseShown(x)}}

-----------------------------------------------------------------------------
(* FinanceProvider: calculateSummary *)

totalIncome(type) == IF type = "personal" THEN 0 ELSE SumAmount(filteredIncomes)

totalInvestments(type) == IF type = "personal" THEN 0 ELSE SumAmount(filteredInvestments)

typeFilteredExpenses(type) ==
    IF type # Null THEN {e \in filteredExpenses : e.type = type} ELSE filteredExpenses

totalExpenses(type) == SumAmount(typeFilteredExpenses(type))

\* a variant of paidExpenses that counts saved expenses as paid
paidExpensesNotUnpaid(type) ==
    SumAmount({e \in typeFilteredExpenses(type) : e.status # "unpaid"})
paidExpenses(type) == SumAmount({e \in typeFilteredExpenses(type) : e.status = "paid"})

unpaidExpenses(type) == SumAmount({e \in typeFilteredExpenses(type) : e.status = "unpaid"})

savedExpenses(type) == SumAmount({e \in typeFilteredExpenses(type) : e.status = "saved"})

\* expenses without a payment source get no entry
expensesBySource(type) ==
    LET tf == typeFilteredExpenses(type) IN
    [s \in {e.paymentSourceId : e \in {x \in tf : x.paymentSourceId \notin {Null, ""}}} |->
        SumAmount({e \in tf : e.paymentSourceId = s})]

totalWithdrawals ==
    SumAmount({e \in filteredExpenses :
                 e.type = "business" /\ e.category = "Saque" /\ e.status = "paid"})

\* the code applies no status filter here
businessExpensesWithoutWithdrawals ==
    SumAmount({e \in filteredExpenses : e.type = "business" /\ e.category # "Saque"})

personalPaidExpenses ==
    SumAmount({e \in filteredExpenses : e.type = "personal" /\ e.status = "paid"})

calculateSummary(type) ==
    LET income == totalIncome(type)
        invested == totalInvestments(type)
        paid == paidExpenses(type)
        withdrawals == totalWithdrawals
        personalPaid == personalPaidExpenses
    IN [totalIncome |-> income,
        totalExpenses |-> totalExpenses(type),
        totalInvestments |-> invested,
        paidExpenses |-> paid,
        unpaidExpenses |-> unpaidExpenses(type),
        savedExpenses |-> savedExpenses(type),
        availableBalance |-> income - paid - invested,
        businessBalance |-> income - businessExpensesWithoutWithdrawals
                               - withdrawals - invested,
        personalBalance |-> withdrawals - personalPaid,
        totalWithdrawals |-> withdrawals,
        personalPaidExpenses |-> personalPaid,
        expensesBySource |-> expensesBySource(type)]

getBusinessSummary == calculateSummary("business")
getPersonalSummary == calculateSummary("personal")
getTotalSummary == calculateSummary(Null)

-----------------------------------------------------------------------------
(* The clock and the month selector *)

T0 == <<2024, 0, 31, MsNoon>>
T1 == <<2024, 1, 1, MsNoon>>

ClockValues == {T0, T1}

\* time passes: `new Date()` returns a later instant
Tick ==
    /\ \E t \in ClockValues : t # today /\ Leq(today, t) /\ today' = t
    /\ UNCHANGED <<selectedMonth, clients, incomes, expenses, investments,
                   user, dbIncomes, dbInvestments, stale,
                   dbClients, dbExpenses, nextId, pending, isMutating,
                   props, form, open, memoToday, calls>>

MonthChoices ==
    {<<2023, 11, 1, 0>>, <<2024, 0, 31, MsNoon>>,
     <<2024, 1, 29, MsLastOfDay>>, <<2024, 2, 1, 0>>}

setSelectedMonth(date) ==
    /\ selectedMonth' = date
    /\ UNCHANGED <<today, clients, incomes, expenses, investments,
                   user, dbIncomes, dbInvestments, stale,
                   dbClients, dbExpenses, nextId, pending, isMutating,
                   props, form, open, memoToday, calls>>

-----------------------------------------------------------------------------
(* The month view over fetched collections drawn from bounded pools *)

MaxViewIncomes == 2
MaxViewInvestments == 1
MaxViewExpenses == 3

Income(id, amount, clientId, paymentDate) ==
    [id |-> id, amount |-> amount, clientId |-> clientId, paymentDate |-> paymentDate]

Investment(id, amount, date) == [id |-> id, amount |-> amount, date |-> date]

Expense(id, amount, category, dueDate, status, paymentSourceId, type, isFixed, createdAt) ==
    [id |-> id, description |-> "DAS", amount |-> amount, category |-> category,
     dueDate |-> dueDate, status |-> status, paymentSourceId |-> paymentSourceId,
     type |-> type, isFixed |-> isFixed, createdAt |-> createdAt]

IncomePool ==
    {Income(1, 1, "c1", <<2024, 0, 31, MsLastOfDay>>),
     Income(2, 2, "c1", <<2024, 1, 1, 0>>),
     Income(3, 4, "c2", <<2024, 1, 29, MsLastOfDay>>),
     Income(4, 8, "c2", <<2023, 11, 31, MsLastOfDay>>),
     Income(5, 16, "c1", <<2024, 0, 1, 0>>),
     Income(6, 32, "c2", <<2024, 2, 1, 0>>)}

InvestmentPool ==
    {Investment(1, 1, <<2024, 0, 31, MsLastOfDay>>),
     Investment(2, 2, <<2024, 1, 1, 0>>)}

Jan15 == <<2024, 0, 15, MsNoon>>
Dec10 == <<2023, 11, 10, MsNoon>>

Feb10 == <<2024, 1, 10, MsNoon>>

ExpensePool ==
    {Expense("x1", 1, "Saque", Jan15, "paid", "c1", "business", FALSE, Dec10),
     Expense("x3", 4, "Impostos", <<2024, 0, 31, MsLastOfDay>>, "paid", Null, "business", FALSE, Jan15),
     Expense("x4", 8, "Impostos", Jan15, "unpaid", Null, "business", FALSE, Dec10),
     Expense("x5", 16, "Impostos", Jan15, "saved", "c2", "business", TRUE, Feb10),
     Expense("x6", 32, "Moradia", Jan15, "paid", Null, "personal", FALSE, Jan15),
     Expense("x7", 64, "Moradia", <<2023, 11, 31, MsNoon>>, "unpaid", Null, "personal", TRUE, Dec10),
     Expense("x8", 128, "Lazer", <<2024, 2, 1, 0>>, "saved", Null, "personal", TRUE, <<2024, 2, 1, 0>>)}

UpTo(Pool, n) == {S \in SUBSET Pool : Cardinality(S) <= n}

EmptyForm ==
    [description |-> "", amount |-> "", category |-> "", dueDate |-> "",
     status |-> "unpaid", paymentSourceId |-> "", isFixed |-> FALSE, months |-> 0]

\* the row of table clients / incomes / expenses / investments that holds
\* record r for user u, and the record a queryFn maps a row to
Stored(r, u) == [f \in DOMAIN r \cup {"user_id"} |-> IF f = "user_id" THEN u ELSE r[f]]
Fetched(row) == [f \in DOMAIN row \ {"user_id"} |-> row[f]]

\* the rows of table clients that hold the clients `ids` of user u
ClientRows(ids, u) == {[id |-> c, user_id |-> u] : c \in ids}

InitView ==
    /\ today = T0
    /\ selectedMonth = today
    /\ clients = {"c1", "c2"}
    /\ incomes \in UpTo(IncomePool, MaxViewIncomes)
    /\ expenses \in UpTo(ExpensePool, MaxViewExpenses)
    /\ investments \in UpTo(InvestmentPool, MaxViewInvestments)
    /\ user = "u1"
    /\ dbClients = ClientRows(clients, user)
    /\ dbIncomes = {Stored(r, user) : r \in incomes}
    /\ dbExpenses = {Stored(r, user) : r \in expenses}
    /\ dbInvestments = {Stored(r, user) : r \in investments}
    /\ stale = {}
    /\ nextId = 1
    /\ pending = <<>>
    /\ isMutating = FALSE
    /\ props = [type |-> "business", editMode |-> FALSE, expense |-> Null]
    /\ form = EmptyForm
    /\ open = FALSE
    /\ memoToday = today
    /\ calls = <<>>

NextView ==
    \/ Tick
    \/ \E date \in MonthChoices : setSelectedMonth(date)

SpecView == InitView /\ [][NextView]_vars

-----------------------------------------------------------------------------
(* ExpenseForm: the conversions of the field texts *)

Undefined == "undefined"

\* String.prototype.trim on the description texts of the model
Trim(s) == IF s = " " THEN "" ELSE s

\* the amount texts of the model and the numbers they denote
AmountTable == {<<"40", 40>>, <<"60", 60>>, <<"-5", 0 - 5>>}
parseFloat(s) == (CHOOSE p \in AmountTable : p[1] = s)[2]
toString(n) == (CHOOSE p \in AmountTable : p[2] = n)[1]

\* the value of an <input type="number"> in which `text` was typed: a text
\* that is not a number gives the empty value
NumberInputValue(text) == IF \E p \in AmountTable : p[1] = text THEN text ELSE ""

\* the date texts of the model, 'yyyy-MM-dd', as <<year, month, day>>
DateTable == {<<"2024-01-31", <<2024, 1, 31>>>>}

\* dueDate.split('-').map(Number); new Date(year, month - 1, day, 12, 0, 0)
ParseDueDate(s) ==
    LET ymd == (CHOOSE p \in DateTable : p[1] = s)[2]
    IN <<ymd[1], ymd[2] - 1, ymd[3], MsNoon>>

\* format(new Date(expense.dueDate), 'yyyy-MM-dd'): the time of day is dropped
format(d) == (CHOOSE p \in DateTable : p[2] = <<d[1], d[2] + 1, d[3]>>)[1]

-----------------------------------------------------------------------------
(* ExpenseForm: withdrawalLimits *)

IsWithdrawal(exp) == exp.category = "Saque" /\ exp.type = "business"

\* (!editMode || exp.id !== expense?.id)
NotEdited(exp) == ~props.editMode \/ exp.id # props.expense

\* the memo computes with the `today` of the render that last recomputed it
totalReceived == SumAmount({inc \in incomes : Leq(inc.paymentDate, memoToday)})

\* a variant of existingWithdrawals that counts the edited expense too
existingWithdrawalsAll == SumAmount({exp \in expenses : IsWithdrawal(exp)})
existingWithdrawals == SumAmount({exp \in expenses : IsWithdrawal(exp) /\ NotEdited(exp)})

\* a variant of availableTotal without Math.max
availableTotalUnclamped == totalReceived - existingWithdrawals
availableTotal == Max(0, totalReceived - existingWithdrawals)

clientIncome(c) ==
    SumAmount({inc \in incomes : inc.clientId = c /\ Leq(inc.paymentDate, memoToday)})

clientWithdrawals(c) ==
    SumAmount({exp \in expenses :
                 IsWithdrawal(exp) /\ exp.paymentSourceId = c /\ NotEdited(exp)})

clientLimits == [c \in clients |-> Max(0, clientIncome(c) - clientWithdrawals(c))]

withdrawalLimits == [availableTotal |-> availableTotal, clientLimits |-> clientLimits]

-----------------------------------------------------------------------------
(* FinanceProvider: the mutations.  A mutation sets isMutating, sends one     *)
(* request and awaits the answer; the backend answers each request later,    *)
(* in any order, with success or with an error.                              *)

Send(req) ==
    /\ pending' = Append(pending, req)
    /\ isMutating' = TRUE

\* `if (!user) return;`
ReturnsEarly == UNCHANGED <<pending, isMutating>>

\* what a context function called on its own leaves alone
MutationFrame ==
    UNCHANGED <<today, selectedMonth, clients, incomes, expenses, investments,
                user, dbIncomes, dbInvestments, stale,
                dbClients, dbExpenses, nextId, props, form, open, memoToday, calls>>

addClient(client) ==
    /\ IF user = Null THEN ReturnsEarly
       ELSE Send([kind |-> "insert", table |-> "clients", row |-> Stored(client, user)])
    /\ MutationFrame

removeClient(id) ==
    /\ Send([kind |-> "delete", table |-> "clients", id |-> id])
    /\ MutationFrame

addIncome(income) ==
    /\ IF user = Null THEN ReturnsEarly
       ELSE Send([kind |-> "insert", table |-> "incomes", row |-> Stored(income, user)])
    /\ MutationFrame

updateIncome(id, updates) ==
    /\ Send([kind |-> "update", table |-> "incomes", id |-> id, row |-> updates])
    /\ MutationFrame

removeIncome(id) ==
    /\ Send([kind |-> "delete", table |-> "incomes", id |-> id])
    /\ MutationFrame

\* addExpense: insert with user_id = user.id and
\* payment_source_id = expense.paymentSourceId || null
addExpense(expense) ==
    IF user = Null THEN ReturnsEarly
    ELSE Send([kind |-> "insert", table |-> "expenses",
               row |-> Stored([expense EXCEPT !.paymentSourceId =
                                 IF @ \in {Undefined, Null, ""} THEN Null ELSE @], user)])

\* updateExpense: every field of `updates` is written, payment_source_id
\* only when updates.paymentSourceId !== undefined
updateExpense(id, updates) ==
    Send([kind |-> "update", table |-> "expenses", id |-> id,
          row |-> IF updates.paymentSourceId # Undefined
                  THEN [updates EXCEPT !.paymentSourceId = IF @ = "" THEN Null ELSE @]
                  ELSE [f \in DOMAIN updates \ {"paymentSourceId"} |-> updates[f]]])

StatusInputs == {<<"paid", "c2">>}

\* a variant of updateExpenseStatus that leaves the payment source out of
\* the request when none is given, as updateExpense does
updateExpenseStatusKeepingSource(id, status, paymentSourceId) ==
    /\ Send([kind |-> "update", table |-> "expenses", id |-> id,
             row |-> IF paymentSourceId \in {Undefined, Null, ""}
                     THEN [status |-> status]
                     ELSE [status |-> status, paymentSourceId |-> paymentSourceId]])
    /\ MutationFrame

\* updateExpenseStatus: writes status and payment_source_id = paymentSourceId || null
updateExpenseStatus(id, status, paymentSourceId) ==
    /\ Send([kind |-> "update", table |-> "expenses", id |-> id,
             row |-> [status |-> status,
                      paymentSourceId |->
                          IF paymentSourceId \in {Undefined, Null, ""}
                          THEN Null ELSE paymentSourceId]])
    /\ MutationFrame

removeExpense(id) ==
    /\ Send([kind |-> "delete", table |-> "expenses", id |-> id])
    /\ MutationFrame

addInvestment(investment) ==
    /\ IF user = Null THEN ReturnsEarly
       ELSE Send([kind |-> "insert", table |-> "investments",
                  row |-> Stored(investment, user)])
    /\ MutationFrame

removeInvestment(id) ==
    /\ Send([kind |-> "delete", table |-> "investments", id |-> id])
    /\ MutationFrame

\* the ids the backend generates for the rows it inserts, in order
ExpenseIds == <<"e1", "e2", "e3", "e4">>

\* the rows of a table after the backend has carried out request r on it
RowsAfter(rows, r) ==
    IF r.kind = "insert"
    THEN rows \cup
           {[f \in DOMAIN r.row \cup {"id", "createdAt"} |->
               IF f = "id" THEN ExpenseIds[nextId] ELSE IF f = "createdAt" THEN today ELSE r.row[f]]}
    ELSE IF r.kind = "update"
    THEN {IF e.id = r.id
          THEN [f \in DOMAIN e |-> IF f \in DOMAIN r.row THEN r.row[f] ELSE e[f]]
          ELSE e : e \in rows}
    ELSE {e \in rows : e.id # r.id}

ClientsAfter(r) == IF r.table = "clients" THEN RowsAfter(dbClients, r) ELSE dbClients
IncomesAfter(r) == IF r.table = "incomes" THEN RowsAfter(dbIncomes, r) ELSE dbIncomes
ExpensesAfter(r) == IF r.table = "expenses" THEN RowsAfter(dbExpenses, r) ELSE dbExpenses
InvestmentsAfter(r) ==
    IF r.table = "investments" THEN RowsAfter(dbInvestments, r) ELSE dbInvestments

RemoveAt(q, i) == [j \in 1..(Len(q) - 1) |-> IF j < i THEN q[j] ELSE q[j + 1]]

\* the queries of useFinanceData that the provider reads as collections
QueryKeys == {"clients", "incomes", "expenses", "investments"}

\* the report queries of useFinanceData
ReportKeys ==
    {"financial-summary", "evolution-data", "expense-categories", "client-allocation",
     "mei-limits"}

\* invalidateFinanceQueries: the query keys it invalidates
InvalidatedKeys == QueryKeys \cup ReportKeys

\* a variant of BackendAnswers that clears isMutating after the await, not
\* in a `finally`
BackendAnswersWithoutFinally(i, ok) ==
    LET r == pending[i] IN
    /\ pending' = RemoveAt(pending, i)
    /\ dbClients' = IF ok THEN ClientsAfter(r) ELSE dbClients
    /\ dbIncomes' = IF ok THEN IncomesAfter(r) ELSE dbIncomes
    /\ dbExpenses' = IF ok THEN ExpensesAfter(r) ELSE dbExpenses
    /\ dbInvestments' = IF ok THEN InvestmentsAfter(r) ELSE dbInvestments
    /\ nextId' = IF ok /\ r.kind = "insert" THEN nextId + 1 ELSE nextId
    /\ stale' = IF ok THEN InvalidatedKeys ELSE stale
    /\ isMutating' = IF ok THEN FALSE ELSE isMutating
    /\ UNCHANGED <<today, selectedMonth, clients, incomes, expenses, investments,
                   user, props, form, open, memoToday, calls>>

\* the answer to the i-th request in flight: on success the backend has
\* carried it out and invalidateFinanceQueries() runs; on an error the
\* mutation throws; either way the `finally` clears isMutating
BackendAnswers(i, ok) ==
    LET r == pending[i] IN
    /\ pending' = RemoveAt(pending, i)
    /\ dbClients' = IF ok THEN ClientsAfter(r) ELSE dbClients
    /\ dbIncomes' = IF ok THEN IncomesAfter(r) ELSE dbIncomes
    /\ dbExpenses' = IF ok THEN ExpensesAfter(r) ELSE dbExpenses
    /\ dbInvestments' = IF ok THEN InvestmentsAfter(r) ELSE dbInvestments
    /\ nextId' = IF ok /\ r.kind = "insert" THEN nextId + 1 ELSE nextId
    /\ stale' = IF ok THEN InvalidatedKeys ELSE stale
    /\ isMutating' = FALSE
    /\ UNCHANGED <<today, selectedMonth, clients, incomes, expenses, investments,
                   user, props, form, open, memoToday, calls>>

-----------------------------------------------------------------------------
(* useFinanceData: the queries *)

IncomesTable ==
    {Income(1, 100, "c1", <<2024, 0, 15, MsNoon>>),
     Income(2, 50, "c2", <<2024, 1, 1, 0>>)}

\* the rows a query's select returns from a backend that applies no policy
\* of its own: clients and investments are filtered by user_id, incomes and
\* expenses are not
Select(key) ==
    IF key = "clients" THEN {r \in dbClients : r.user_id = user}
    ELSE IF key = "incomes" THEN dbIncomes
    ELSE IF key = "expenses" THEN dbExpenses
    ELSE {r \in dbInvestments : r.user_id = user}

\* a query's queryFn has run (the queries are enabled while a user is signed
\* in): its data is the selected rows as they are now; a mounted form renders
\* again and recomputes withdrawalLimits when one of its collections is new
Refetch(key) ==
    /\ key \in QueryKeys
    /\ user # Null
    /\ clients' = IF key = "clients" THEN {r.id : r \in Select(key)} ELSE clients
    /\ incomes' = IF key = "incomes" THEN {Fetched(r) : r \in Select(key)} ELSE incomes
    /\ expenses' = IF key = "expenses" THEN {Fetched(r) : r \in Select(key)} ELSE expenses
    /\ investments' =
          IF key = "investments" THEN {Fetched(r) : r \in Select(key)} ELSE investments
    /\ stale' = stale \ {key}
    /\ memoToday' = IF key = "investments" THEN memoToday ELSE today
    /\ UNCHANGED <<today, selectedMonth, user, dbClients, dbIncomes, dbExpenses,
                   dbInvestments, nextId, pending, isMutating, props, form, open, calls>>

-----------------------------------------------------------------------------
(* ExpenseForm: mounting, the dialog and the fields *)

\* the fields after the effect that populates the form from `expense`
Populated(e) ==
    [description |-> e.description, amount |-> toString(e.amount),
     category |-> e.category, dueDate |-> format(e.dueDate), status |-> e.status,
     paymentSourceId |-> IF e.paymentSourceId \in {Null, Undefined, ""}
                         THEN "" ELSE e.paymentSourceId,
     isFixed |-> e.isFixed, months |-> 0]

\* the `expense` prop of a form that is given none
NoExpense == [id |-> Null]

\* a form is rendered with props (type, editMode, expense): the state starts
\* empty and closed, and the effect populates it when editing an expense
Mount(type, editMode, e) ==
    /\ props' = [type |-> type, editMode |-> editMode, expense |-> e.id]
    /\ form' = IF e.id # Null /\ editMode THEN Populated(e) ELSE EmptyForm
    /\ open' = FALSE
    /\ memoToday' = today
    /\ calls' = <<>>
    /\ UNCHANGED <<today, selectedMonth, clients, incomes, expenses, investments,
                   user, dbIncomes, dbInvestments, stale,
                   dbClients, dbExpenses, nextId, pending, isMutating>>

\* Dialog onOpenChange: closing a creating form resets it
onOpenChange(isOpen) ==
    /\ open # isOpen
    /\ open' = isOpen
    /\ form' = IF ~isOpen /\ ~props.editMode THEN EmptyForm ELSE form
    /\ UNCHANGED <<today, selectedMonth, clients, incomes, expenses, investments,
                   user, dbIncomes, dbInvestments, stale,
                   dbClients, dbExpenses, nextId, pending, isMutating,
                   props, memoToday, calls>>

\* the Cancelar button
Cancel ==
    /\ open
    /\ open' = FALSE
    /\ UNCHANGED <<today, selectedMonth, clients, incomes, expenses, investments,
                   user, dbIncomes, dbInvestments, stale,
                   dbClients, dbExpenses, nextId, pending, isMutating,
                   props, form, memoToday, calls>>

businessCategories ==
    {"Saque", "Impostos", "Infraestrutura", "Marketing", "Ferramentas", "Serviços", "Outros"}

personalCategories ==
    {"Moradia", "Alimentação", "Transporte", "Saúde", "Lazer", "Educação",
     "Cartão de crédito", "Poupança", "Outros"}

categories == IF props.type = "business" THEN businessCategories ELSE personalCategories

\* the user changes fields of the open form: the selects offer the categories
\* of the form's type and the cached clients, and a select left alone keeps
\* its value
Fill(f) ==
    /\ open
    /\ f.category \in categories \cup {form.category}
    /\ f.paymentSourceId \in clients \cup {form.paymentSourceId}
    /\ form' = [f EXCEPT !.amount = NumberInputValue(@)]
    /\ calls' = <<>>
    /\ UNCHANGED <<today, selectedMonth, clients, incomes, expenses, investments,
                   user, dbIncomes, dbInvestments, stale,
                   dbClients, dbExpenses, nextId, pending, isMutating,
                   props, open, memoToday>>

-----------------------------------------------------------------------------
(* ExpenseForm: handleSubmit *)

\* a variant of FormValid without the min="0" of the amount input
FormValidWithoutMin ==
    /\ form.description # ""
    /\ form.amount # ""
    /\ form.dueDate # ""
    /\ form.isFixed /\ form.months # 0 => form.months \in 1..12

\* constraint validation of the form's controls, which the browser runs
\* before it dispatches `submit`: description, amount and dueDate are
\* required, amount is a number >= 0, months (shown for a fixed expense, empty
\* when 0) is within 1..12
FormValid ==
    /\ form.description # ""
    /\ form.amount # "" /\ parseFloat(form.amount) >= 0
    /\ form.dueDate # ""
    /\ form.isFixed /\ form.months # 0 => form.months \in 1..12

MissingField ==
    Trim(form.description) = "" \/ form.amount = "" \/ form.category = "" \/ form.dueDate = ""

parsedAmount == parseFloat(form.amount)

CheckedAsWithdrawal == form.category = "Saque" /\ props.type = "business"

\* a variant of ExceedsTotal that compares with the income received alone
ExceedsTotalOfIncome == CheckedAsWithdrawal /\ parsedAmount > totalReceived
ExceedsTotal == CheckedAsWithdrawal /\ parsedAmount > withdrawalLimits.availableTotal

ExceedsClientLimit ==
    /\ CheckedAsWithdrawal
    /\ form.paymentSourceId # ""
    /\ form.paymentSourceId \in DOMAIN withdrawalLimits.clientLimits
    /\ parsedAmount > withdrawalLimits.clientLimits[form.paymentSourceId]

expenseData ==
    [description |-> Trim(form.description), amount |-> parsedAmount,
     category |-> form.category, dueDate |-> ParseDueDate(form.dueDate),
     status |-> form.status,
     paymentSourceId |-> IF form.paymentSourceId = "" THEN Undefined ELSE form.paymentSourceId,
     type |-> props.type, isFixed |-> form.isFixed]

Updates == props.editMode /\ props.expense # Null

\* inserts into table expenses sent so far, answered with success or in flight
InsertsSent ==
    (nextId - 1) + Cardinality({i \in 1..Len(pending) : pending[i].kind = "insert"})

handleSubmit ==
    /\ open
    /\ UNCHANGED <<today, selectedMonth, clients, incomes, expenses, investments,
                   user, dbIncomes, dbInvestments, stale,
                   dbClients, dbExpenses, nextId, props, memoToday>>
    /\ IF MissingField
       THEN /\ calls' = <<>>
            /\ UNCHANGED <<pending, isMutating, form, open>>
       ELSE IF ExceedsTotal \/ ExceedsClientLimit
       THEN /\ calls' = <<"toast.error">>
            /\ UNCHANGED <<pending, isMutating, form, open>>
       ELSE /\ IF Updates
               THEN updateExpense(props.expense, expenseData)
               ELSE addExpense(expenseData)
            /\ IF form.isFixed /\ form.months > 0
               THEN \* the context provides no createFixedExpenseCopies: the
                    \* call throws a TypeError and the handler ends there
                    /\ calls' = <<IF Updates THEN "updateExpense" ELSE "addExpense",
                                  "createFixedExpenseCopies">>
                    /\ UNCHANGED <<form, open>>
               ELSE /\ calls' = <<IF Updates THEN "updateExpense" ELSE "addExpense",
                                  "onSuccess">>
                    /\ form' = EmptyForm
                    /\ open' = FALSE

\* <form onSubmit={handleSubmit}>: the submit button was pressed and the
\* controls are valid
onSubmit == FormValid /\ handleSubmit

-----------------------------------------------------------------------------
(* The finance tracker: one business form, the provider, the queries and the *)
(* backend.  The user enters withdrawals of 60 against an income of 100.     *)

MaxInserts == 2
MaxPending == 2

\* the bounds of the model: requests in flight, and rows inserted
Bounded == Len(pending) <= MaxPending /\ InsertsSent <= MaxInserts

PipelineInputs ==
    [description : {"DAS"}, amount : {"60"}, category : {"Saque"},
     dueDate : {"2024-01-31"}, status : {"unpaid"}, paymentSourceId : {"", "c1"},
     isFixed : {FALSE}, months : {0}]

Init ==
    /\ today = T0
    /\ selectedMonth = today
    /\ clients = {}
    /\ incomes = {}
    /\ expenses = {}
    /\ investments = {}
    /\ user = "u1"
    /\ dbClients = ClientRows({"c1", "c2"}, user)
    /\ dbIncomes = {Stored(r, user) : r \in IncomesTable}
    /\ dbExpenses = {}
    /\ dbInvestments = {}
    /\ stale = InvalidatedKeys
    /\ nextId = 1
    /\ pending = <<>>
    /\ isMutating = FALSE
    /\ props = [type |-> "business", editMode |-> FALSE, expense |-> Null]
    /\ form = EmptyForm
    /\ open = FALSE
    /\ memoToday = today
    /\ calls = <<>>

Next ==
    \/ \E key \in QueryKeys : Refetch(key)
    \/ Mount("business", FALSE, NoExpense)
    \/ \E e \in expenses : Mount("business", TRUE, e)
    \/ \E isOpen \in BOOLEAN : onOpenChange(isOpen)
    \/ Cancel
    \/ \E f \in PipelineInputs : Fill(f)
    \/ onSubmit /\ Bounded'
    \/ \E e \in expenses, s \in StatusInputs :
          updateExpenseStatus(e.id, s[1], s[2]) /\ Bounded'
    \/ \E i \in 1..Len(pending), ok \in BOOLEAN : BackendAnswers(i, ok)

Spec == Init /\ [][Next]_vars

-----------------------------------------------------------------------------
(* The form over fetched collections drawn from bounded pools, used while no *)
(* mutation is in flight: a session of the form up to the write it sends     *)

MaxFormExpenses == 2

DueJan31 == <<2024, 0, 31, MsNoon>>

FormExpensePool ==
    {Expense("p1", 60, "Saque", DueJan31, "unpaid", Null, "business", FALSE, Jan15),
     Expense("p2", 40, "Saque", DueJan31, "paid", "c2", "business", FALSE, Jan15),
     Expense("p3", 60, "Impostos", DueJan31, "paid", "c1", "business", FALSE, Jan15),
     Expense("p4", 40, "Saque", DueJan31, "unpaid", "c1", "personal", FALSE, Jan15),
     Expense("p5", 40, "Saque", DueJan31, "unpaid", "c1", "business", FALSE, Jan15)}

\* the texts and choices a user enters: complete forms, and forms with one
\* required field left empty
BusinessInputs ==
    [description : {"DAS"}, amount : {"40", "60"}, category : {"Saque"},
     dueDate : {"2024-01-31"}, status : {"unpaid"}, paymentSourceId : {"", "c1", "c2"},
     isFixed : {FALSE}, months : {0}]
    \cup
    [description : {"DAS"}, amount : {"60"}, category : {"Impostos"},
     dueDate : {"2024-01-31"}, status : {"paid"}, paymentSourceId : {"c2"},
     isFixed : {FALSE}, months : {0}]

FixedInputs ==
    [description : {"DAS"}, amount : {"40"}, category : {"Saque"},
     dueDate : {"2024-01-31"}, status : {"unpaid"}, paymentSourceId : {""},
     isFixed : {TRUE}, months : {1}]

IncompleteInputs ==
    LET f == [description |-> "DAS", amount |-> "40", category |-> "Saque",
              dueDate |-> "2024-01-31", status |-> "unpaid", paymentSourceId |-> "",
              isFixed |-> FALSE, months |-> 0]
    IN {[f EXCEPT !.description = ""], [f EXCEPT !.description = " "],
        [f EXCEPT !.amount = ""], [f EXCEPT !.category = ""], [f EXCEPT !.dueDate = ""]}

PersonalInputs ==
    [description : {"DAS"}, amount : {"60"}, category : {"Moradia", "Saque"},
     dueDate : {"2024-01-31"}, status : {"unpaid"}, paymentSourceId : {""},
     isFixed : {FALSE}, months : {0}]

\* a negative amount, and a text that is not a number
UncheckedAmountInputs ==
    [description : {"DAS"}, amount : {"-5", "abc"}, category : {"Impostos"},
     dueDate : {"2024-01-31"}, status : {"unpaid"}, paymentSourceId : {""},
     isFixed : {FALSE}, months : {0}]

FormInputs ==
    BusinessInputs \cup FixedInputs \cup IncompleteInputs \cup PersonalInputs
        \cup UncheckedAmountInputs

InitForm ==
    /\ today = T0
    /\ selectedMonth = today
    /\ clients \in {{"c1", "c2"}, {"c1"}}
    /\ incomes \in {IncomesTable, {}}
    /\ expenses \in UpTo(FormExpensePool, MaxFormExpenses)
    /\ investments = {}
    /\ user = "u1"
    /\ dbClients = ClientRows(clients, user)
    /\ dbIncomes = {Stored(r, user) : r \in incomes}
    /\ dbExpenses = {Stored(r, user) : r \in expenses}
    /\ dbInvestments = {Stored(r, user) : r \in investments}
    /\ stale = {}
    /\ nextId = 1
    /\ pending = <<>>
    /\ isMutating = FALSE
    /\ props = [type |-> "business", editMode |-> FALSE, expense |-> Null]
    /\ form = EmptyForm
    /\ open = FALSE
    /\ memoToday = today
    /\ calls = <<>>

NextForm ==
    \/ Tick
    \/ \E type \in {"business", "personal"} : Mount(type, FALSE, NoExpense)
    \/ \E type \in {"business", "personal"}, e \in expenses : Mount(type, TRUE, e)
    \/ \E isOpen \in BOOLEAN : onOpenChange(isOpen)
    \/ Cancel
    \/ \E f \in FormInputs : Fill(f)
    \/ ~isMutating /\ onSubmit

SpecForm == InitForm /\ [][NextForm]_vars

-----------------------------------------------------------------------------
(* Claims about the month view (checked under SpecView) *)

SummaryTypes == {"business", "personal", Null}

SameCalendarMonth(d, m) == d[1] = m[1] /\ d[2] = m[2]

\* C6: in every summary, totalIncome counts an income of the selected month
\* only if its paymentDate <= today (0 in the personal view); an income of
\* the viewed month dated after today is left out.
C6_IncomeRecognition ==
    \A type \in SummaryTypes :
        calculateSummary(type).totalIncome =
            IF type = "personal" THEN 0
            ELSE SumAmount({i \in filteredIncomes : Leq(i.paymentDate, today)})

\* C7: businessBalance = totalIncome - (month expenses with type business,
\* category other than Saque and status paid) - totalWithdrawals
\* - totalInvestments, so unpaid and saved business expenses do not reduce it.
C7_BusinessBalance ==
    \A type \in SummaryTypes :
        LET s == calculateSummary(type) IN
        s.businessBalance =
            s.totalIncome
            - SumAmount({e \in filteredExpenses :
                           e.type = "business" /\ e.category # "Saque" /\ e.status = "paid"})
            - s.totalWithdrawals - s.totalInvestments

\* C8: the business, personal and total summaries of the same inputs agree on
\* businessBalance, personalBalance, totalWithdrawals and personalPaidExpenses,
\* and personalBalance = totalWithdrawals - personalPaidExpenses in each.
C8_ViewIndependence ==
    /\ \A f \in {"businessBalance", "personalBalance", "totalWithdrawals",
                 "personalPaidExpenses"} :
          /\ getBusinessSummary[f] = getTotalSummary[f]
          /\ getPersonalSummary[f] = getTotalSummary[f]
    /\ \A type \in SummaryTypes :
          LET s == calculateSummary(type) IN
          s.personalBalance = s.totalWithdrawals - s.personalPaidExpenses

\* the month expenses of a summary type, stated from the expense records
MonthExpensesOfType(type) ==
    {e \in filteredExpenses : type = Null \/ e.type = type}

\* C9: paidExpenses, unpaidExpenses and savedExpenses are the sums of the
\* type-filtered month expenses with status paid, unpaid and saved, they add
\* up to totalExpenses, and availableBalance = totalIncome - paidExpenses
\* - totalInvestments.
C9_StatusPartition ==
    \A type \in SummaryTypes :
        LET s == calculateSummary(type)
            tf == MonthExpensesOfType(type)
        IN /\ s.paidExpenses = SumAmount({e \in tf : e.status = "paid"})
           /\ s.unpaidExpenses = SumAmount({e \in tf : e.status = "unpaid"})
           /\ s.savedExpenses = SumAmount({e \in tf : e.status = "saved"})
           /\ s.totalExpenses = SumAmount(tf)
           /\ s.paidExpenses + s.unpaidExpenses + s.savedExpenses = s.totalExpenses
           /\ s.availableBalance = s.totalIncome - s.paidExpenses - s.totalInvestments

\* a month with paid, unpaid and saved expenses, income and an investment
C9_Witness ==
    /\ getTotalSummary.paidExpenses > 0
    /\ getTotalSummary.unpaidExpenses > 0
    /\ getTotalSummary.savedExpenses > 0
    /\ getTotalSummary.totalIncome > 0
    /\ getTotalSummary.totalInvestments > 0
    /\ getTotalSummary.availableBalance # getTotalSummary.totalIncome

\* C10: an income (by paymentDate) or investment (by date) is in the month
\* view iff its date is in the calendar month of selectedMonth, the first and
\* the last instant of the month included; a record of the last day of a
\* month is not shown in the next month.
C10_MonthFilter ==
    /\ \A i \in incomes :
          i \in filteredIncomes <=> SameCalendarMonth(i.paymentDate, selectedMonth)
    /\ \A i \in investments :
          i \in filteredInvestments <=> SameCalendarMonth(i.date, selectedMonth)

\* February 2024 is viewed: the income of the last instant of Feb 29 is
\* shown, and one of another month is not
C10_Witness ==
    /\ getYear(selectedMonth) = 2024 /\ getMonth(selectedMonth) = 1
    /\ \E i \in filteredIncomes : i.paymentDate = endOfMonth(selectedMonth)
    /\ \E i \in incomes : i \notin filteredIncomes
    /\ selectedMonth # today

-----------------------------------------------------------------------------
(* Claims about the withdrawal ceiling (checked under Spec) *)

\* the business withdrawals of the store, and the income received by now
StoreWithdrawals == {e \in dbExpenses : e.category = "Saque" /\ e.type = "business"}
IncomeReceived == {i \in IncomesTable : Leq(i.paymentDate, today)}

\* C1: starting from a store that satisfies it, no sequence of form submits
\* and status updates reaches a store in which the business Saque expenses
\* sum to more than the incomes with paymentDate <= today, overall or for a
\* single client (paymentSourceId = c against clientId = c).
C1_WithdrawalCeiling ==
    /\ SumAmount(StoreWithdrawals) <= SumAmount(IncomeReceived)
    /\ \A c \in {"c1", "c2"} :
          SumAmount({e \in StoreWithdrawals : e.paymentSourceId = c})
              <= SumAmount({i \in IncomeReceived : i.clientId = c})

-----------------------------------------------------------------------------
(* Claims about the form (checked under SpecForm).  `today` in the ceilings  *)
(* is the instant read by the evaluation of withdrawalLimits.                *)

\* the handler's writes
Writes == {"addExpense", "updateExpense", "createFixedExpenseCopies"}

\* a submission that fails validation, stated from the fields and the limits
FailsValidation ==
    \/ Trim(form.description) = ""
    \/ form.amount = ""
    \/ form.category = ""
    \/ form.dueDate = ""
    \/ /\ form.category = "Saque" /\ props.type = "business"
       /\ \/ parseFloat(form.amount) > withdrawalLimits.availableTotal
          \/ /\ form.paymentSourceId \in DOMAIN withdrawalLimits.clientLimits
             /\ parseFloat(form.amount) > withdrawalLimits.clientLimits[form.paymentSourceId]

\* C2: a submission that fails validation (a required field empty, or a
\* business Saque above availableTotal or above the limit of the selected
\* source) calls none of addExpense, updateExpense, createFixedExpenseCopies,
\* sends no request, and leaves the fields, the open flag and the collections
\* unchanged.
C2_InvalidSubmitWritesNothing ==
    [][(handleSubmit /\ FailsValidation) =>
          /\ \A k \in 1..Len(calls') : calls'[k] \notin Writes
          /\ UNCHANGED <<pending, isMutating, form, open, clients, incomes, expenses,
                         investments, dbClients, dbIncomes, dbExpenses,
                         dbInvestments, nextId>>]_vars

\* a complete business Saque was submitted and refused: the dialog is still
\* open with the fields as entered and nothing is in flight
C2_Witness ==
    /\ calls = <<"toast.error">>
    /\ open
    /\ form.category = "Saque" /\ form.amount = "60"
    /\ pending = <<>> /\ ~isMutating
    /\ totalReceived > 0

SourceLimit(c) ==
    LET Rc == SumAmount({i \in incomes : i.clientId = c /\ Leq(i.paymentDate, memoToday)})
        Wc == SumAmount({e \in expenses :
                           /\ e.category = "Saque" /\ e.type = "business"
                           /\ e.paymentSourceId = c
                           /\ ~(props.editMode /\ e.id = props.expense)})
    IN IF Rc - Wc > 0 THEN Rc - Wc ELSE 0

\* C4: clientLimits[c] = max(0, Rc - Wc) for every client c of the clients
\* list, and a business Saque submission with a source chosen and an amount
\* above the limit of that source is rejected, also when the source has no
\* entry in clientLimits.
C4_SourceLimitEnforced ==
    /\ [](\A c \in clients : withdrawalLimits.clientLimits[c] = SourceLimit(c))
    /\ [][(/\ handleSubmit
           /\ ~MissingField
           /\ form.category = "Saque" /\ props.type = "business"
           /\ form.paymentSourceId # ""
           /\ parseFloat(form.amount) > SourceLimit(form.paymentSourceId))
          => (\A k \in 1..Len(calls') : calls'[k] \notin Writes) /\ pending' = pending]_vars

\* total and per-source business Saque amounts of the collections within the
\* income received
WithinCeilings ==
    /\ SumAmount({e \in expenses : IsWithdrawal(e)})
          <= SumAmount({i \in incomes : Leq(i.paymentDate, memoToday)})
    /\ \A c \in {"c1", "c2"} :
          SumAmount({e \in expenses : IsWithdrawal(e) /\ e.paymentSourceId = c})
              <= SumAmount({i \in incomes : i.clientId = c /\ Leq(i.paymentDate, memoToday)})

\* the form edits business Saque expense e and holds e's amount and source
Resubmits(e) ==
    /\ props.editMode /\ props.expense = e.id /\ props.type = "business"
    /\ IsWithdrawal(e)
    /\ ~MissingField
    /\ form.category = "Saque"
    /\ parseFloat(form.amount) = e.amount
    /\ form.paymentSourceId = (IF e.paymentSourceId = Null THEN "" ELSE e.paymentSourceId)

-----------------------------------------------------------------------------
(* Claims about recurring expenses in the month view (checked under SpecView) *)

\* C11: materialization is the only recurrence mechanism: for every selected
\* month, filteredExpenses is exactly the stored expenses whose stored dueDate
\* lies in that month, each with its stored dueDate; so a stored expense is
\* counted in the totals of exactly one month.
C11_MaterializationOnly ==
    filteredExpenses = {e \in expenses : SameCalendarMonth(e.dueDate, selectedMonth)}

YearMonthLeq(d, m) == d[1] < m[1] \/ (d[1] = m[1] /\ d[2] <= m[2])

\* C20: the projection rule of the month view: a fixed expense whose dueDate
\* is outside the selected month is in filteredExpenses iff the (year, month)
\* of its createdAt is at most that of the selected month; a non-fixed expense
\* (and a fixed one otherwise) iff its dueDate is in the selected month; each
\* stored expense appears at most once.
C20_ProjectionRule ==
    LET view == filteredExpenses IN
    \A e \in expenses :
        LET shown == {f \in view : f.id = e.id}
            due == SameCalendarMonth(e.dueDate, selectedMonth)
        IN /\ (e.isFixed /\ ~due) =>
                 (shown # {} <=> YearMonthLeq(e.createdAt, selectedMonth))
           /\ (~e.isFixed \/ due) => (shown # {} <=> due)
           /\ Cardinality(shown) <= 1

\* a month is viewed in which one fixed expense due in another month is
\* shown because it was created in that very month, one because it was
\* created before, and a third is not shown because it was created later
C20_Witness ==
    /\ \E e \in expenses :
          /\ e.isFixed /\ ~SameCalendarMonth(e.dueDate, selectedMonth)
          /\ SameCalendarMonth(e.createdAt, selectedMonth)
          /\ \E f \in filteredExpenses : f.id = e.id
    /\ \E e \in expenses :
          /\ e.isFixed /\ ~SameCalendarMonth(e.dueDate, selectedMonth)
          /\ ~SameCalendarMonth(e.createdAt, selectedMonth)
          /\ \E f \in filteredExpenses : f.id = e.id
    /\ \E e \in expenses :
          /\ e.isFixed /\ ~SameCalendarMonth(e.dueDate, selectedMonth)
          /\ \A f \in filteredExpenses : f.id # e.id

-----------------------------------------------------------------------------
(* The month view over smaller collections, for the claims that compare the  *)
(* views of two successive states                                            *)

MaxDerivedIncomes == 1
MaxDerivedExpenses == 1

InitDerived ==
    /\ InitView
    /\ Cardinality(incomes) <= MaxDerivedIncomes
    /\ Cardinality(expenses) <= MaxDerivedExpenses

SpecDerived == InitDerived /\ [][NextView]_vars

-----------------------------------------------------------------------------
(* Claims about the derived views as functions (checked under SpecDerived) *)

DerivedViews ==
    <<filteredIncomes, filteredExpenses, filteredInvestments,
      getBusinessSummary, getPersonalSummary, getTotalSummary>>

-----------------------------------------------------------------------------
(* Claims about fixed expenses submitted through the form (checked under    *)
(* SpecForm)                                                                 *)

\* date d advanced by i calendar months, the day clamped to the length of
\* the target month
AdvancedByMonths(d, i) ==
    LET y == d[1] + ((d[2] + i) \div 12)
        m == (d[2] + i) % 12
    IN <<y, m, Min(d[3], DaysInMonth(y, m)), d[4]>>

\* an accepted submission of a fixed expense for form.months months ahead
SubmitsFixed == handleSubmit /\ ~FailsValidation /\ form.isFixed /\ form.months > 0

\* C12: submitting the form with isFixed and months = n stores the base
\* expense once plus n copies: after the base write, createFixedExpenseCopies
\* sends n inserts, the i-th with the form's dueDate advanced by i calendar
\* months (day clamped), status unpaid, no payment source and isFixed.
\* Checked under SpecForm.
C12_FixedCopies ==
    [][SubmitsFixed =>
          /\ Len(pending') = Len(pending) + 1 + form.months
          /\ \A i \in 1..form.months :
                LET r == pending'[Len(pending) + 1 + i]
                IN /\ r.kind = "insert" /\ r.table = "expenses"
                   /\ r.row.dueDate = AdvancedByMonths(ParseDueDate(form.dueDate), i)
                   /\ r.row.status = "unpaid"
                   /\ r.row.paymentSourceId = Null
                   /\ r.row.isFixed]_vars

\* C13: a partial failure of a fixed submission is reported: when fewer than
\* the 1 + n writes of a submission for n months were sent, the submission
\* tells its caller so (an error report) and shows no success message.
\* Checked under SpecForm.
C13_PartialFailureReported ==
    [][(SubmitsFixed /\ Len(pending') < Len(pending) + 1 + form.months) =>
          /\ \E k \in 1..Len(calls') : calls'[k] = "toast.error"
          /\ \A k \in 1..Len(calls') : calls'[k] \notin {"toast.success", "onSuccess"}]_vars

-----------------------------------------------------------------------------
(* Claims about the amounts the form writes (checked under SpecForm) *)

\* C17: no expense with a negative or non-numeric amount is passed to
\* addExpense or updateExpense by the form: every insert or update of table
\* expenses sent carries an amount that is a number >= 0, and so does every
\* stored expense.
C17_NonNegativeAmounts ==
    /\ \A i \in 1..Len(pending) :
          (pending[i].table = "expenses" /\ pending[i].kind \in {"insert", "update"}
             /\ "amount" \in DOMAIN pending[i].row)
          => pending[i].row.amount \in Nat
    /\ \A e \in dbExpenses : e.amount \in Nat

\* an expense written by the form is in flight, and the form, opened again,
\* holds the amount -5, with which the controls are not valid
C17_Witness ==
    /\ \E i \in 1..Len(pending) : pending[i].kind = "insert" /\ pending[i].row.amount > 0
    /\ open
    /\ form.amount = "-5"
    /\ ~MissingField
    /\ ~FormValid

-----------------------------------------------------------------------------
(* Claims about overlapping mutations (checked under Spec) *)

\* C19: in every reachable state with at least one mutation in flight,
\* isMutating is true, however overlapping mutations interleave.
C19_MutatingWhileInFlight == pending # <<>> => isMutating

-----------------------------------------------------------------------------
(* The provider on its own: the eleven mutations, the backend and the four   *)
(* queries, for a signed-in user u1 or for no user, over tables that also    *)
(* hold the rows of another user u2                                          *)

MaxProviderPending == 1
MaxProviderInserts == 1

\* the rows of a user: one client, one income, one expense, one investment
RowsOf(u, n) ==
    [clients |-> {[id |-> "c" \o n, user_id |-> u]},
     incomes |-> {Stored(Income("i" \o n, 100, "c" \o n, Jan15), u)},
     expenses |-> {Stored(Expense("x" \o n, 40, "Saque", Jan15, "unpaid", Null,
                                  "business", FALSE, Dec10), u)},
     investments |-> {Stored(Investment("v" \o n, 2, Jan15), u)}]

ProviderExpense ==
    [description |-> "DAS", amount |-> 60, category |-> "Impostos", dueDate |-> DueJan31,
     status |-> "unpaid", paymentSourceId |-> Undefined, type |-> "business",
     isFixed |-> FALSE]

InitProvider ==
    /\ today = T0
    /\ selectedMonth = today
    /\ user \in {Null, "u1"}
    /\ clients = {}
    /\ incomes = {}
    /\ expenses = {}
    /\ investments = {}
    /\ dbClients = RowsOf("u1", "1").clients \cup RowsOf("u2", "2").clients
    /\ dbIncomes = RowsOf("u1", "1").incomes \cup RowsOf("u2", "2").incomes
    /\ dbExpenses = RowsOf("u1", "1").expenses \cup RowsOf("u2", "2").expenses
    /\ dbInvestments = RowsOf("u1", "1").investments \cup RowsOf("u2", "2").investments
    /\ stale = {}
    /\ nextId = 1
    /\ pending = <<>>
    /\ isMutating = FALSE
    /\ props = [type |-> "business", editMode |-> FALSE, expense |-> Null]
    /\ form = EmptyForm
    /\ open = FALSE
    /\ memoToday = today
    /\ calls = <<>>

BoundedProvider ==
    Len(pending) <= MaxProviderPending /\ InsertsSent <= MaxProviderInserts

Insertion ==
    \/ addClient([name |-> "Ana"])
    \/ addIncome([amount |-> 50, clientId |-> "c1", paymentDate |-> Jan15])
    \/ addExpense(ProviderExpense) /\ MutationFrame
    \/ addInvestment([amount |-> 1, date |-> Jan15])

Mutation ==
    \/ Insertion
    \/ removeClient("c1")
    \/ updateIncome("i1", [amount |-> 50])
    \/ removeIncome("i1")
    \/ updateExpense("x1", ProviderExpense) /\ MutationFrame
    \/ updateExpenseStatus("x1", "paid", "c1")
    \/ removeExpense("x1")
    \/ removeInvestment("v1")

NextProvider ==
    \/ Mutation /\ BoundedProvider'
    \/ \E i \in 1..Len(pending), ok \in BOOLEAN : BackendAnswers(i, ok)

SpecProvider == InitProvider /\ [][NextProvider]_vars

\* the provider's insertions, the backend and the four queries
NextQueries ==
    \/ Insertion /\ BoundedProvider'
    \/ \E i \in 1..Len(pending), ok \in BOOLEAN : BackendAnswers(i, ok)
    \/ \E key \in QueryKeys : Refetch(key)

SpecQueries == InitProvider /\ [][NextQueries]_vars

\* the backend answers every request: the awaited call settles
SpecProviderFair ==
    SpecProvider /\ WF_vars(pending # <<>> /\ \E ok \in BOOLEAN : BackendAnswers(1, ok))

-----------------------------------------------------------------------------
(* Claims about the provider's mutations (checked under SpecProvider, with   *)
(* the fairness of SpecProviderFair for the temporal one)                    *)

Tables == <<dbClients, dbIncomes, dbExpenses, dbInvestments, nextId>>

\* C14: guaranteed release of the in-flight flag: a mutation that has set
\* isMutating is followed by isMutating being false, whether the backend
\* reports success or an error; the answer to a request clears the flag, and
\* an error answer leaves the tables and the queries as they are (nothing is
\* invalidated) and the request is gone (it is not sent again).
C14_GuaranteedRelease ==
    /\ isMutating ~> ~isMutating
    /\ [][\A i \in 1..Len(pending) :
            /\ (\E ok \in BOOLEAN : BackendAnswers(i, ok)) => ~isMutating'
            /\ BackendAnswers(i, FALSE) =>
                  /\ UNCHANGED <<Tables, stale>>
                  /\ pending' = RemoveAt(pending, i)]_vars

\* a mutation has set the flag, the backend has carried its request out, the
\* queries are invalidated and the flag is cleared
C14_Witness ==
    /\ pending = <<>>
    /\ ~isMutating
    /\ stale = InvalidatedKeys
    /\ dbExpenses # RowsOf("u1", "1").expenses \cup RowsOf("u2", "2").expenses

\* C15: the logged-out state: while no user is signed in, every fetched
\* collection is empty and no mutating function has sent a request or
\* changed isMutating.  Checked under SpecProvider.
C15_LoggedOutNoOp ==
    user = Null =>
        /\ clients = {} /\ incomes = {} /\ expenses = {} /\ investments = {}
        /\ pending = <<>>
        /\ ~isMutating

-----------------------------------------------------------------------------
(* Claims about the owner of the rows (checked under SpecQueries) *)

\* the owner of the row of table `rows` a fetched record comes from
OwnersOf(rows, id) == {r.user_id : r \in {x \in rows : x.id = id}}

\* C16: explicit owner scoping: each insert sent carries user_id = user.id,
\* and each select on clients, incomes, expenses and investments is filtered
\* by user_id = user.id: over a backend that applies no policy of its own, a
\* fetched collection holds no row owned by another user.
C16_OwnerScoping ==
    /\ \A i \in 1..Len(pending) :
          pending[i].kind = "insert" => pending[i].row.user_id = user
    /\ \A c \in clients : OwnersOf(dbClients, c) \subseteq {user}
    /\ \A r \in incomes : OwnersOf(dbIncomes, r.id) \subseteq {user}
    /\ \A r \in expenses : OwnersOf(dbExpenses, r.id) \subseteq {user}
    /\ \A r \in investments : OwnersOf(dbInvestments, r.id) \subseteq {user}

-----------------------------------------------------------------------------
(* The month view over fixed expenses due on the last days of a month, seen  *)
(* in months of a leap year and of the years around it                       *)

MaxRemapExpenses == 2

\* fixed expenses created in January 2023, due on days 28 to 31
RemapPool ==
    {Expense("r1", 1, "Moradia", <<2023, 0, 31, MsNoon>>, "unpaid", Null, "personal",
             TRUE, <<2023, 0, 10, MsNoon>>),
     Expense("r2", 2, "Moradia", <<2024, 0, 31, MsNoon>>, "paid", "c1", "personal",
             TRUE, <<2023, 0, 10, MsNoon>>),
     Expense("r3", 4, "Impostos", <<2024, 1, 29, MsNoon>>, "saved", Null, "business",
             TRUE, <<2023, 0, 10, MsNoon>>),
     Expense("r4", 8, "Impostos", <<2024, 2, 30, MsNoon>>, "unpaid", Null, "business",
             TRUE, <<2023, 0, 10, MsNoon>>),
     Expense("r5", 16, "Lazer", <<2023, 1, 28, MsNoon>>, "unpaid", Null, "personal",
             TRUE, <<2023, 0, 10, MsNoon>>),
     Expense("r6", 32, "Lazer", <<2024, 0, 31, MsNoon>>, "unpaid", Null, "personal",
             FALSE, <<2023, 0, 10, MsNoon>>)}

RemapMonths ==
    {<<2023, 1, 1, 0>>, <<2023, 3, 15, MsNoon>>, <<2024, 1, 1, 0>>,
     <<2024, 3, 15, MsNoon>>, <<2025, 1, 1, 0>>}

InitRemap ==
    /\ today = T0
    /\ selectedMonth = today
    /\ clients = {"c1", "c2"}
    /\ incomes = {}
    /\ expenses \in UpTo(RemapPool, MaxRemapExpenses)
    /\ investments = {}
    /\ user = "u1"
    /\ dbClients = ClientRows(clients, user)
    /\ dbIncomes = {}
    /\ dbExpenses = {Stored(r, user) : r \in expenses}
    /\ dbInvestments = {}
    /\ stale = {}
    /\ nextId = 1
    /\ pending = <<>>
    /\ isMutating = FALSE
    /\ props = [type |-> "business", editMode |-> FALSE, expense |-> Null]
    /\ form = EmptyForm
    /\ open = FALSE
    /\ memoToday = today
    /\ calls = <<>>

NextRemap == \E date \in RemapMonths : setSelectedMonth(date)

SpecRemap == InitRemap /\ [][NextRemap]_vars

-----------------------------------------------------------------------------
(* Claims about the re-mapped due date (checked under SpecRemap) *)

\* C21: every expense in filteredExpenses has its dueDate within the selected
\* month, also a projected fixed expense due on day 29, 30 or 31 seen in a
\* shorter month or in the February of a non-leap year; every other field
\* is the stored record's.
C21_RemapInSelectedMonth ==
    \A f \in filteredExpenses :
        /\ InSelectedMonth(f.dueDate)
        /\ \E e \in expenses : [f EXCEPT !.dueDate = e.dueDate] = e

-----------------------------------------------------------------------------
(* A mutation statement by statement: after the await, `if (error) throw     *)
(* error; invalidateFinanceQueries();` and then the `finally` are two steps  *)

\* request r with its mutation's position after the await: "resolved" (the
\* queries are invalidated) or "rejected" (the error is thrown)
Resumed(r, at) == [f \in DOMAIN r \cup {"at"} |-> IF f = "at" THEN at ELSE r[f]]

Awaiting(i) == "at" \notin DOMAIN pending[i]

\* a variant of Responds that clears isMutating when the answer arrives and
\* leaves the invalidation for later
RespondsClearingFirst(i, ok) ==
    LET r == pending[i] IN
    /\ Awaiting(i)
    /\ pending' = [pending EXCEPT ![i] = Resumed(r, IF ok THEN "resolved" ELSE "rejected")]
    /\ dbClients' = IF ok THEN ClientsAfter(r) ELSE dbClients
    /\ dbIncomes' = IF ok THEN IncomesAfter(r) ELSE dbIncomes
    /\ dbExpenses' = IF ok THEN ExpensesAfter(r) ELSE dbExpenses
    /\ dbInvestments' = IF ok THEN InvestmentsAfter(r) ELSE dbInvestments
    /\ nextId' = IF ok /\ r.kind = "insert" THEN nextId + 1 ELSE nextId
    /\ isMutating' = FALSE
    /\ UNCHANGED <<today, selectedMonth, clients, incomes, expenses, investments,
                   user, stale, props, form, open, memoToday, calls>>

\* the awaited call of the i-th request returns: the backend has carried the
\* request out, or not; `if (error) throw error; invalidateFinanceQueries();`
Responds(i, ok) ==
    LET r == pending[i] IN
    /\ Awaiting(i)
    /\ pending' = [pending EXCEPT ![i] = Resumed(r, IF ok THEN "resolved" ELSE "rejected")]
    /\ dbClients' = IF ok THEN ClientsAfter(r) ELSE dbClients
    /\ dbIncomes' = IF ok THEN IncomesAfter(r) ELSE dbIncomes
    /\ dbExpenses' = IF ok THEN ExpensesAfter(r) ELSE dbExpenses
    /\ dbInvestments' = IF ok THEN InvestmentsAfter(r) ELSE dbInvestments
    /\ nextId' = IF ok /\ r.kind = "insert" THEN nextId + 1 ELSE nextId
    /\ stale' = IF ok THEN InvalidatedKeys ELSE stale
    /\ UNCHANGED <<today, selectedMonth, clients, incomes, expenses, investments,
                   user, isMutating, props, form, open, memoToday, calls>>

\* `finally { setIsMutating(false); }` of the i-th request's mutation
Finally(i) ==
    /\ ~Awaiting(i)
    /\ pending' = RemoveAt(pending, i)
    /\ isMutating' = FALSE
    /\ UNCHANGED <<today, selectedMonth, clients, incomes, expenses, investments,
                   user, dbClients, dbIncomes, dbExpenses, dbInvestments, nextId,
                   stale, props, form, open, memoToday, calls>>

NextSteps ==
    \/ Mutation /\ BoundedProvider'
    \/ \E i \in 1..Len(pending), ok \in BOOLEAN : Responds(i, ok)
    \/ \E i \in 1..Len(pending) : Finally(i)

SpecSteps == InitProvider /\ [][NextSteps]_vars

-----------------------------------------------------------------------------
(* Claims about the order of the steps of a mutation (checked under          *)
(* SpecSteps)                                                                *)

\* C22: on a successful answer every finance query (clients, incomes,
\* expenses, investments and the five report queries) is invalidated before
\* isMutating is set back to false: the answer leaves the flag as it is, and
\* when the `finally` of a resolved mutation clears the flag the queries are
\* invalidated already; on a failed answer no query is invalidated.
C22_InvalidatedBeforeRelease ==
    [][\A i \in 1..Len(pending) :
          /\ (\E ok \in BOOLEAN : Responds(i, ok)) => UNCHANGED isMutating
          /\ Responds(i, FALSE) => UNCHANGED stale
          /\ Responds(i, TRUE) => stale' = InvalidatedKeys
          /\ (Finally(i) /\ pending[i].at = "resolved") =>
                InvalidatedKeys \subseteq stale /\ ~isMutating']_vars

\* between the two steps of a successful mutation: the queries are
\* invalidated and isMutating is still true
C22_Witness ==
    /\ \E i \in 1..Len(pending) : ~Awaiting(i) /\ pending[i].at = "resolved"
    /\ stale = InvalidatedKeys
    /\ isMutating

-----------------------------------------------------------------------------
(* Claims about the dispatch of an accepted submit (checked under Spec) *)

\* the submit is accepted: it passes the validation of the form and of the
\* handler
Accepted == onSubmit /\ ~MissingField /\ ~ExceedsTotal /\ ~ExceedsClientLimit

\* the number of calls of `name` the last handler made
CallsOf(cs, name) == Cardinality({k \in 1..Len(cs) : cs[k] = name})

\* C23: an accepted submit calls updateExpense exactly once with the edited
\* expense's id when in edit mode with an expense (and never addExpense),
\* otherwise addExpense exactly once (and never updateExpense); and the form
\* is reset and closed and onSuccess is invoked only after the write has
\* completed, never in a step that leaves the write in flight.
C23_AcceptedSubmit ==
    [][Accepted =>
          LET sent == pending'[Len(pending')]
          IN /\ CallsOf(calls', "updateExpense") = IF Updates THEN 1 ELSE 0
             /\ CallsOf(calls', "addExpense") = IF Updates THEN 0 ELSE 1
             /\ Len(pending') = Len(pending) + 1
             /\ sent.table = "expenses"
             /\ sent.kind = IF Updates THEN "update" ELSE "insert"
             /\ Updates => sent.id = props.expense
             /\ (CallsOf(calls', "onSuccess") > 0 \/ ~open' \/ form' = EmptyForm) =>
                   Len(pending') = Len(pending)]_vars

-----------------------------------------------------------------------------
(* updateExpenseStatus and the backend on their own: the status of stored    *)
(* expenses is changed, with a payment source, with an empty one and with    *)
(* none                                                                      *)

MaxStatusPending == 1

StatusPool ==
    {Stored(Expense("s1", 40, "Saque", Jan15, "unpaid", "c1", "business", TRUE, Dec10), "u1"),
     Stored(Expense("s2", 60, "Lazer", DueJan31, "paid", Null, "personal", FALSE, Jan15), "u1"),
     Stored(Expense("s3", 16, "Impostos", Jan15, "paid", "c2", "business", FALSE, Dec10), "u2")}

StatusArguments == {"paid", "unpaid"} \X {Undefined, Null, "", "c2"}

InitStatus ==
    /\ today = T0
    /\ selectedMonth = today
    /\ user = "u1"
    /\ clients = {}
    /\ incomes = {}
    /\ expenses = {}
    /\ investments = {}
    /\ dbClients = RowsOf("u1", "1").clients \cup RowsOf("u2", "2").clients
    /\ dbIncomes = RowsOf("u1", "1").incomes
    /\ dbExpenses \in SUBSET StatusPool \ {{}}
    /\ dbInvestments = RowsOf("u1", "1").investments
    /\ stale = {}
    /\ nextId = 1
    /\ pending = <<>>
    /\ isMutating = FALSE
    /\ props = [type |-> "business", editMode |-> FALSE, expense |-> Null]
    /\ form = EmptyForm
    /\ open = FALSE
    /\ memoToday = today
    /\ calls = <<>>

NextStatus ==
    \/ \E e \in dbExpenses, a \in StatusArguments :
          updateExpenseStatus(e.id, a[1], a[2]) /\ Len(pending') <= MaxStatusPending
    \/ \E i \in 1..Len(pending), ok \in BOOLEAN : BackendAnswers(i, ok)

SpecStatus == InitStatus /\ [][NextStatus]_vars

-----------------------------------------------------------------------------
(* Claims about updateExpenseStatus (checked under SpecStatus) *)

\* the payment source a request to update an expense stores: none when the
\* request carries no source
SourceStored(r) ==
    IF "paymentSourceId" \in DOMAIN r.row THEN r.row.paymentSourceId ELSE Null

\* C24: updateExpenseStatus(id, status, paymentSourceId) writes only the
\* status and the payment source of the expense with that id: the request it
\* sends names that id and carries the status and the source, the source
\* being none when paymentSourceId is omitted or empty; carried out, the
\* request leaves amount, category, dueDate, type, isFixed and every other
\* field of that expense and every other record as they are, and overwrites
\* the source the expense had.
C24_StatusFrame ==
    [][/\ \A e \in dbExpenses, a \in StatusArguments :
             updateExpenseStatus(e.id, a[1], a[2]) =>
                LET sent == pending'[Len(pending')]
                IN /\ sent.kind = "update" /\ sent.table = "expenses" /\ sent.id = e.id
                   /\ sent.row = [status |-> a[1],
                                  paymentSourceId |->
                                      IF a[2] = "c2" THEN "c2" ELSE Null]
                   /\ UNCHANGED Tables
       /\ \A i \in 1..Len(pending) :
             BackendAnswers(i, TRUE) =>
                LET r == pending[i]
                IN /\ UNCHANGED <<dbClients, dbIncomes, dbInvestments, nextId>>
                   /\ dbExpenses' =
                         {IF e.id = r.id
                          THEN [e EXCEPT !.status = r.row.status,
                                         !.paymentSourceId = SourceStored(r)]
                          ELSE e : e \in dbExpenses}]_vars

\* the expense s1, stored unpaid with the payment source c1, is paid with no
\* source after its status was updated without one
C24_Witness ==
    /\ pending = <<>>
    /\ \E e \in dbExpenses :
          /\ e = [CHOOSE s \in StatusPool : s.id = "s1"
                    EXCEPT !.status = "paid", !.paymentSourceId = Null]
    /\ stale = InvalidatedKeys

=============================================================================
